---- MODULE Spec2Model ----
(***************************************************************************)
(* Model of the trace-log-to-test-case correlator of analyze_cpu_trace.py: *)
(* parse_map_file, find_test_for_pc, parse_trace_log, find_test_assembly,  *)
(* analyze_assembly_diff and main.                                         *)
(*                                                                         *)
(* Text is modelled as sequences of one-character strings.  A line read    *)
(* from a file carries its line terminator, as Python's file iteration     *)
(* delivers it.  Python's None is the empty tuple and a present value x is *)
(* the one-element tuple <<x>>, so that None and 0 are different values.   *)
(***************************************************************************)
EXTENDS Integers, Sequences, FiniteSets, TLC

VARIABLES
    stage,       \* control location of the function being executed
    fs,          \* the artifacts on disk: map, inc, trace (None when absent)
    file,        \* lines of the file the running loop iterates over
    pos,         \* number of lines of file already consumed by the loop
    test_map,    \* parse_map_file / main: address -> test number
    pc,          \* find_test_for_pc: the pc argument
    res,         \* find_test_for_pc result <<test, start, end>>
    last_pc,     \* parse_trace_log: last_pc
    last_line,   \* parse_trace_log: last_line
    test_num,    \* find_test_assembly: the test_num argument
    in_test,     \* find_test_assembly: in_test
    test_lines,  \* find_test_assembly: test_lines
    out,         \* main: messages printed so far
    raised,      \* main: the exception that ended main, None if none
    key_order,   \* the keys of the dict test_map in insertion order
    rom,         \* the file spctest.sfc, None when absent
    bak,         \* the file spctest.sfc.bak, None when absent
    last_run     \* the latest run of a ROM script: what it found and its outcome

vars == <<stage, fs, file, pos, test_map, pc, res, last_pc, last_line,
          test_num, in_test, test_lines, out, raised, key_order, rom, bak,
          last_run>>

(***************************************************************************)
(* Bounds of the model.                                                    *)
(***************************************************************************)
MaxLines == 3     \* lines per input file in the loop specifications
MaxAddr == 3      \* addresses 0..MaxAddr in the resolver specification
MaxTestId == 2    \* test ids 0..MaxTestId-1 in the resolver specification

(***************************************************************************)
(* Python values.                                                          *)
(***************************************************************************)
None == <<>>

Some(x) == <<x>>

Val(o) == o[1]

NoMap == [a \in {} |-> 0]

(***************************************************************************)
(* Characters and the classes the regular expressions use.                 *)
(***************************************************************************)
Digits == {"0", "1", "2", "3", "4", "5", "6", "7", "8", "9"}

LowerHexLetters == {"a", "b", "c", "d", "e", "f"}

UpperHexLetters == {"A", "B", "C", "D", "E", "F"}

LowerHex == Digits \cup LowerHexLetters

AnyHex == LowerHex \cup UpperHexLetters

Space == {" ", "\t", "\n", "\r"}

HexDigitValue ==
    [c \in AnyHex |->
        CASE c = "0" -> 0 [] c = "1" -> 1 [] c = "2" -> 2 [] c = "3" -> 3
          [] c = "4" -> 4 [] c = "5" -> 5 [] c = "6" -> 6 [] c = "7" -> 7
          [] c = "8" -> 8 [] c = "9" -> 9
          [] c \in {"a", "A"} -> 10 [] c \in {"b", "B"} -> 11
          [] c \in {"c", "C"} -> 12 [] c \in {"d", "D"} -> 13
          [] c \in {"e", "E"} -> 14 [] c \in {"f", "F"} -> 15]

HexDigitChar ==
    <<"0", "1", "2", "3", "4", "5", "6", "7", "8", "9",
      "a", "b", "c", "d", "e", "f">>

LowerOf ==
    [A |-> "a", B |-> "b", C |-> "c", D |-> "d", E |-> "e", F |-> "f",
     G |-> "g", H |-> "h", I |-> "i", J |-> "j", K |-> "k", L |-> "l",
     M |-> "m", N |-> "n", O |-> "o", P |-> "p", Q |-> "q", R |-> "r",
     S |-> "s", T |-> "t", U |-> "u", V |-> "v", W |-> "w", X |-> "x",
     Y |-> "y", Z |-> "z"]

Letters == DOMAIN LowerOf \cup {LowerOf[c] : c \in DOMAIN LowerOf}

\* str.lower() of one character
LowerChar(c) == IF c \in DOMAIN LowerOf THEN LowerOf[c] ELSE c

\* str.lower()
Lower(s) == [i \in 1..Len(s) |-> LowerChar(s[i])]

\* variant of HexToInt that weighs every digit position by 32
RECURSIVE HexToIntWide(_)
HexToIntWide(s) ==
    IF Len(s) = 0 THEN 0
    ELSE 32 * HexToIntWide(SubSeq(s, 1, Len(s) - 1))
         + HexDigitValue[s[Len(s)]]

\* int(s, 16) for a non-empty run of hexadecimal digits
RECURSIVE HexToInt(_)
HexToInt(s) ==
    IF Len(s) = 0 THEN 0
    ELSE 16 * HexToInt(SubSeq(s, 1, Len(s) - 1)) + HexDigitValue[s[Len(s)]]

\* the lowercase hexadecimal digits of n, most significant first ('x' format)
RECURSIVE HexOf(_)
HexOf(n) ==
    IF n < 16 THEN <<HexDigitChar[n + 1]>>
    ELSE HexOf(n \div 16) \o <<HexDigitChar[(n % 16) + 1]>>

RECURSIVE Zeros(_)
Zeros(k) == IF k <= 0 THEN <<>> ELSE <<"0">> \o Zeros(k - 1)

\* f'{n:04x}': lowercase hex, zero padded to at least four digits
Format04x(n) == Zeros(4 - Len(HexOf(n))) \o HexOf(n)

\* first index j >= i at which s leaves the class (Len(s)+1 if it never does):
\* the end of a greedy character-class repetition started at i
RunEnd(s, i, class) ==
    CHOOSE j \in i..(Len(s) + 1) :
        /\ \A k \in i..(j - 1) : s[k] \in class
        /\ (j = Len(s) + 1 \/ s[j] \notin class)

\* s has the literal t at index i
HasAt(s, i, t) ==
    /\ i >= 1
    /\ i + Len(t) - 1 <= Len(s)
    /\ \A k \in 1..Len(t) : s[i + k - 1] = t[k]

\* Python's  t in s
Contains(s, t) == \E i \in 1..(Len(s) + 1) : HasAt(s, i, t)

\* str.strip(): leading and trailing whitespace removed
Strip(s) ==
    LET first == RunEnd(s, 1, Space)
        last == IF first > Len(s) THEN first - 1
                ELSE CHOOSE j \in first..Len(s) :
                        /\ s[j] \notin Space
                        /\ \A k \in (j + 1)..Len(s) : s[k] \in Space
    IN SubSeq(s, first, last)

(***************************************************************************)
(* parse_map_file                                                          *)
(***************************************************************************)
\* re.match(r'^test([0-9a-f]+)\s+([0-9A-Fa-f]+)', line): the spans of the
\* two groups; each repetition is greedy and no shorter one can match
MapIdEnd(line) == RunEnd(line, 5, LowerHex)

MapAddrStart(line) == RunEnd(line, MapIdEnd(line), Space)

MapAddrEnd(line) == RunEnd(line, MapAddrStart(line), AnyHex)

MapMatch(line) ==
    /\ HasAt(line, 1, <<"t", "e", "s", "t">>)
    /\ MapIdEnd(line) > 5
    /\ MapAddrStart(line) > MapIdEnd(line)
    /\ MapAddrEnd(line) > MapAddrStart(line)

\* int(match.group(1), 16)
MapTestNum(line) == HexToInt(SubSeq(line, 5, MapIdEnd(line) - 1))

\* int(match.group(2), 16)
MapAddr(line) ==
    HexToInt(SubSeq(line, MapAddrStart(line), MapAddrEnd(line) - 1))

\* test_map[addr] = test_num
DictSet(m, k, v) == [a \in DOMAIN m \cup {k} |-> IF a = k THEN v ELSE m[a]]

\* variant of MapLine in which the first entry stored under an address stays
MapLineKeepFirst(m, line) ==
    IF MapMatch(line) /\ MapAddr(line) \notin DOMAIN m
    THEN DictSet(m, MapAddr(line), MapTestNum(line))
    ELSE m

\* the body of the loop of parse_map_file
MapLine(m, line) ==
    IF MapMatch(line) THEN DictSet(m, MapAddr(line), MapTestNum(line)) ELSE m

\* the key order of a dict after  d[k] = v : a new key goes last
InsertKey(keys, k) ==
    IF \E i \in 1..Len(keys) : keys[i] = k THEN keys ELSE Append(keys, k)

\* the effect of the loop body on the key order of test_map
MapLineKeys(keys, line) ==
    IF MapMatch(line) THEN InsertKey(keys, MapAddr(line)) ELSE keys

\* the key order of the dict parse_map_file returns
RECURSIVE parse_map_keys(_)
parse_map_keys(lines) ==
    IF Len(lines) = 0 THEN <<>>
    ELSE MapLineKeys(parse_map_keys(SubSeq(lines, 1, Len(lines) - 1)),
                     lines[Len(lines)])

RECURSIVE parse_map_file(_)
parse_map_file(lines) ==
    IF Len(lines) = 0 THEN NoMap
    ELSE MapLine(parse_map_file(SubSeq(lines, 1, Len(lines) - 1)),
                 lines[Len(lines)])

(***************************************************************************)
(* find_test_for_pc                                                        *)
(***************************************************************************)
\* a set of addresses in ascending order
RECURSIVE Sorted(_)
Sorted(S) ==
    IF S = {} THEN <<>>
    ELSE LET mn == CHOOSE x \in S : \A y \in S : x <= y
         IN <<mn>> \o Sorted(S \ {mn})

\* variant of WalkBreak that also stops at an address equal to pc
WalkBreakAtEqual(addr, p) == addr >= p

\* the test of the walk:  if addr > pc: break
WalkBreak(addr, p) == addr > p

\* the walk over sorted_addrs from index i on; last is <<last_addr, last_test>>
RECURSIVE Walk(_, _, _, _, _)
Walk(m, sorted_addrs, i, p, last) ==
    IF i > Len(sorted_addrs) THEN last
    ELSE IF WalkBreak(sorted_addrs[i], p) THEN last
    ELSE Walk(m, sorted_addrs, i + 1, p,
              <<Some(sorted_addrs[i]), Some(m[sorted_addrs[i]])>>)

\* variant of FirstTest that reports an open end for the first test
FirstTestOpenEnd(m, sorted_addrs) ==
    IF Len(sorted_addrs) > 0
    THEN <<Some(m[sorted_addrs[1]]), Some(sorted_addrs[1]), None>>
    ELSE <<None, None, None>>

\* the branch taken when last_addr is None
FirstTest(m, sorted_addrs) ==
    IF Len(sorted_addrs) > 0
    THEN <<Some(m[sorted_addrs[1]]), Some(sorted_addrs[1]),
           IF Len(sorted_addrs) > 1 THEN Some(sorted_addrs[2]) ELSE None>>
    ELSE <<None, None, None>>

\* sorted_addrs.index(last_addr), counted from 1
IndexOf(sorted_addrs, addr) ==
    CHOOSE i \in 1..Len(sorted_addrs) :
        /\ sorted_addrs[i] = addr
        /\ \A k \in 1..(i - 1) : sorted_addrs[k] # addr

\* variant of NextAddr that takes the address after the next one
NextAddrSkip(sorted_addrs, idx, p) ==
    IF idx + 2 <= Len(sorted_addrs) /\ p < sorted_addrs[idx + 2]
    THEN Some(sorted_addrs[idx + 2])
    ELSE IF idx + 1 <= Len(sorted_addrs) /\ p < sorted_addrs[idx + 1]
    THEN Some(sorted_addrs[idx + 1])
    ELSE None

\* variant of NextAddr whose bound check is off by one
NextAddrShort(sorted_addrs, idx, p) ==
    IF idx + 2 <= Len(sorted_addrs) /\ p < sorted_addrs[idx + 1]
    THEN Some(sorted_addrs[idx + 1])
    ELSE None

\* the end of the range once last_addr is known (idx counted from 1)
NextAddr(sorted_addrs, idx, p) ==
    IF idx + 1 <= Len(sorted_addrs) /\ p < sorted_addrs[idx + 1]
    THEN Some(sorted_addrs[idx + 1])
    ELSE None

\* variant of SortKeys that walks the keys in insertion order
SortKeysUnsorted(keys) == keys

\* sorted(test_map.keys()); keys is the key list in insertion order
SortKeys(keys) == Sorted({keys[i] : i \in 1..Len(keys)})

\* m is the mapping of the dict test_map and keys its key order
find_test_for_pc(m, keys, p) ==
    LET sorted_addrs == SortKeys(keys)
        last == Walk(m, sorted_addrs, 1, p, <<None, None>>)
        last_addr == last[1]
        last_test == last[2]
    IN IF last_addr = None
       THEN FirstTest(m, sorted_addrs)
       ELSE <<last_test, last_addr,
              NextAddr(sorted_addrs, IndexOf(sorted_addrs, Val(last_addr)), p)>>

(***************************************************************************)
(* parse_trace_log                                                         *)
(***************************************************************************)
\* re.search(r'PC:0x([0-9A-Fa-f]+)\s+\|', line) tried at index i
TraceHexEnd(line, i) == RunEnd(line, i + 5, AnyHex)

TraceMatchAt(line, i) ==
    /\ HasAt(line, i, <<"P", "C", ":", "0", "x">>)
    /\ TraceHexEnd(line, i) > i + 5
    /\ RunEnd(line, TraceHexEnd(line, i), Space) > TraceHexEnd(line, i)
    /\ HasAt(line, RunEnd(line, TraceHexEnd(line, i), Space), <<"|">>)

TraceMatch(line) == \E i \in 1..Len(line) : TraceMatchAt(line, i)

\* the leftmost index at which the search succeeds
TraceMatchPos(line) ==
    CHOOSE i \in 1..Len(line) :
        /\ TraceMatchAt(line, i)
        /\ \A k \in 1..(i - 1) : ~TraceMatchAt(line, k)

\* int(match.group(1), 16)
TracePc(line) ==
    HexToInt(SubSeq(line, TraceMatchPos(line) + 5,
                    TraceHexEnd(line, TraceMatchPos(line)) - 1))

\* variant of TraceLine that keeps the first match
TraceLineKeepFirst(acc, line) ==
    IF TraceMatch(line) /\ acc[1] = None
    THEN <<Some(TracePc(line)), Some(Strip(line))>>
    ELSE acc

\* the body of the loop of parse_trace_log; acc is <<last_pc, last_line>>
TraceLine(acc, line) ==
    IF TraceMatch(line)
    THEN <<Some(TracePc(line)), Some(Strip(line))>>
    ELSE acc

RECURSIVE parse_trace_log(_)
parse_trace_log(lines) ==
    IF Len(lines) = 0 THEN <<None, None>>
    ELSE TraceLine(parse_trace_log(SubSeq(lines, 1, Len(lines) - 1)),
                   lines[Len(lines)])

(***************************************************************************)
(* find_test_assembly                                                      *)
(***************************************************************************)
\* f'{test_name}:' with test_name = f'test{test_num:04x}'
Marker(n) == <<"t", "e", "s", "t">> \o Format04x(n) \o <<":">>

\* variant of IsTarget that looks for the label in the line as written only
IsTargetAsWritten(line, n) == Contains(line, Marker(n))

\* f'{test_name}:' in line or f'{test_name}:' in line.lower()
IsTarget(line, n) ==
    Contains(line, Marker(n)) \/ Contains(Lower(line), Marker(n))

\* re.match(r'^test[0-9a-f]+:', line, re.IGNORECASE)
IsStartMarker(line) ==
    /\ HasAt(Lower(line), 1, <<"t", "e", "s", "t">>)
    /\ RunEnd(line, 5, AnyHex) > 5
    /\ HasAt(line, RunEnd(line, 5, AnyHex), <<":">>)

\* the body of the loop of find_test_assembly; brk records the break
AsmLine(st, line, n) ==
    IF IsTarget(line, n)
    THEN [in_test |-> TRUE, test_lines |-> Append(st.test_lines, line),
          brk |-> FALSE]
    ELSE IF st.in_test
    THEN IF IsStartMarker(line)
         THEN [st EXCEPT !.brk = TRUE]
         ELSE [st EXCEPT !.test_lines = Append(st.test_lines, line)]
    ELSE st

AsmStart == [in_test |-> FALSE, test_lines |-> <<>>, brk |-> FALSE]

RECURSIVE AsmLoop(_, _, _, _)
AsmLoop(lines, i, st, n) ==
    IF i > Len(lines) \/ st.brk THEN st.test_lines
    ELSE AsmLoop(lines, i + 1, AsmLine(st, lines[i], n), n)

find_test_assembly(lines, n) == AsmLoop(lines, 1, AsmStart, n)

(***************************************************************************)
(* analyze_assembly_diff                                                   *)
(***************************************************************************)
\* [A-Za-z0-9\s#(),$]
InstrClass == Letters \cup Digits \cup Space \cup {"#", "(", ")", ",", "$"}

\* re.search(r'\|\s+([0-9A-Fa-f\s]+)\s+\|\s+([A-Za-z0-9\s#(),$]+)', line)
\* tried at index i: the second bar is where the run of hex digits and
\* whitespace after the first bar ends
DiffBar(line, i) == RunEnd(line, i + 1, AnyHex \cup Space)

DiffInstrStart(line, i) == RunEnd(line, DiffBar(line, i) + 1, Space)

DiffMatchAt(line, i) ==
    /\ HasAt(line, i, <<"|">>)
    /\ DiffBar(line, i) - (i + 1) >= 3
    /\ line[i + 1] \in Space
    /\ line[DiffBar(line, i) - 1] \in Space
    /\ HasAt(line, DiffBar(line, i), <<"|">>)
    /\ DiffInstrStart(line, i) > DiffBar(line, i) + 1
    /\ \/ /\ DiffInstrStart(line, i) <= Len(line)
          /\ line[DiffInstrStart(line, i)] \in InstrClass
       \/ DiffInstrStart(line, i) - (DiffBar(line, i) + 1) >= 2

DiffMatch(line) == \E i \in 1..Len(line) : DiffMatchAt(line, i)

DiffMatchPos(line) ==
    CHOOSE i \in 1..Len(line) :
        /\ DiffMatchAt(line, i)
        /\ \A k \in 1..(i - 1) : ~DiffMatchAt(line, k)

\* trace_match.group(1).strip()
DiffBytes(line) ==
    LET i == DiffMatchPos(line)
    IN Strip(SubSeq(line, i + 1, DiffBar(line, i) - 1))

\* trace_match.group(2).strip()
DiffInstr(line) ==
    LET i == DiffMatchPos(line)
        w == DiffInstrStart(line, i)
    IN IF w <= Len(line) /\ line[w] \in InstrClass
       THEN Strip(SubSeq(line, w, RunEnd(line, w, InstrClass) - 1))
       ELSE <<>>

analyze_assembly_diff(trace_line, expected_asm) ==
    IF ~DiffMatch(trace_line) THEN None
    ELSE Some([trace_bytes |-> DiffBytes(trace_line),
               trace_instr |-> DiffInstr(trace_line),
               expected |-> expected_asm])

(***************************************************************************)
(* Inputs.                                                                 *)
(***************************************************************************)
\* a line as file iteration yields it: the text and its terminator
Line(text) == text \o <<"\n">>

\* the text of a line without its terminator
LineText(line) ==
    IF Len(line) > 0 /\ line[Len(line)] = "\n"
    THEN SubSeq(line, 1, Len(line) - 1)
    ELSE line

\* lines of tests-basic.map
MapLines ==
    {Line(<<"t", "e", "s", "t", "1", " ", "2">>),   \* id 1 at 2
     Line(<<"t", "e", "s", "t", "2", " ", "2">>),   \* id 2 at the same address
     Line(<<"t", "e", "s", "t", "0", "\t", "0">>),   \* id 0 at 0, tab
     Line(<<"t", "e", "s", "t", "a", " ", " ", "A", "0">>),   \* id 10 at 160
     Line(<<"t", "e", "s", "t", "1", " ", "1", "f", " ", "L", "F">>),   \* id 1 at 31, flags follow
     Line(<<"t", "e", "s", "t", "2", " ", "3", "x">>),   \* id 2 at 3, text follows
     Line(<<"t", "e", "s", "t", "1", "A", " ", "3">>),   \* no match: upper-case id
     Line(<<"T", "e", "s", "t", "1", " ", "3">>),   \* no match: upper-case label
     Line(<<" ", "t", "e", "s", "t", "1", " ", "3">>),   \* no match: indented
     Line(<<"t", "e", "s", "t", " ", "3">>),   \* no match: no id
     Line(<<"t", "e", "s", "t", "3", " ", "g">>),   \* no match: no address
     Line(<<";", " ", "m", "a", "p">>)    \* no match: comment
    }

\* lines of cpu_trace.log
TraceLines ==
    {Line(<<"P", "C", ":", "0", "x", "1", "0", " ", "|">>),   \* pc 16
     Line(<<" ", "P", "C", ":", "0", "x", "0", " ", "|", " ", "A", "D">>),   \* pc 0, indented
     Line(<<"c", " ", "P", "C", ":", "0", "x", "2", "a", "\t", "|", " ", "x", " ">>),   \* pc 42, trailing blank
     Line(<<"P", "C", ":", "0", "x", "1", "0", " ", "|", " ", "2", "D", " ", "|", " ", "A", "N", "D">>),   \* pc 16 with bytes and mnemonic
     Line(<<"P", "C", ":", "0", "x", "1", " ", "P", "C", ":", "0", "x", "2", " ", "|">>),   \* pc 2: the first occurrence does not match
     Line(<<"P", "C", ":", "0", "x", "3", " ", "|", " ", "P", "C", ":", "0", "x", "4", " ", "|">>),   \* pc 3: leftmost match
     Line(<<"P", "C", ":", "0", "x", "1", "0", "0", "0", "0", "0", "0", " ", "|">>),   \* pc 2^24: seven digits
     Line(<<"P", "C", ":", "0", "x", "1", "0", "|">>),   \* no match: no blank before the bar
     Line(<<"p", "c", ":", "0", "x", "1", "0", " ", "|">>),   \* no match: lower-case tag
     Line(<<>>)    \* no match: empty line
    }

\* lines of tests-basic.inc
AsmLines ==
    {Line(<<"t", "e", "s", "t", "0", "0", "0", "1", ":">>),   \* label of test 1
     Line(<<"t", "e", "s", "t", "0", "0", "0", "2", ":">>),   \* label of test 2
     Line(<<" ", "n", "o", "p">>),   \* instruction
     Line(<<"T", "E", "S", "T", "0", "0", "0", "1", ":">>),   \* label of test 1 in upper case
     Line(<<";", " ", "t", "e", "s", "t", "0", "0", "0", "1", ":">>),   \* comment naming the label of test 1
     Line(<<"t", "e", "s", "t", "1", ":">>),   \* label with a short id
     Line(<<"T", "e", "s", "t", "0", "0", "A", "B", ":">>),   \* label in mixed case
     Line(<<"t", "e", "s", "t", "0", "0", "0", "1">>)    \* label text without colon
    }

\* the files of at most MaxLines lines drawn from a set of lines
Files(lines) == UNION {[1..n -> lines] : n \in 0..MaxLines}

\* the symbol tables over addresses 0..MaxAddr
Tables == UNION {[S -> 0..(MaxTestId - 1)] : S \in SUBSET (0..MaxAddr)}

NoFiles == [map |-> None, inc |-> None, trace |-> None]

\* the insertion orders the keys of a table are tried in: ascending and
\* descending
KeyOrders(S) ==
    {Sorted(S), [i \in 1..Cardinality(S) |-> Sorted(S)[Cardinality(S) + 1 - i]]}

(***************************************************************************)
(* The loop of parse_map_file, one line per step.                          *)
(***************************************************************************)
InitMap ==
    /\ stage = "map_loop"
    /\ fs = NoFiles
    /\ file \in Files(MapLines)
    /\ pos = 0
    /\ test_map = NoMap
    /\ pc = 0
    /\ res = <<None, None, None>>
    /\ last_pc = None
    /\ last_line = None
    /\ test_num = 0
    /\ in_test = FALSE
    /\ test_lines = <<>>
    /\ out = <<>>
    /\ raised = None
    /\ key_order = <<>>
    /\ rom = None
    /\ bak = None
    /\ last_run = None

MapReadLine ==
    /\ stage = "map_loop"
    /\ pos < Len(file)
    /\ test_map' = MapLine(test_map, file[pos + 1])
    /\ pos' = pos + 1
    /\ key_order' = MapLineKeys(key_order, file[pos + 1])
    /\ UNCHANGED <<rom, bak, last_run>>
    /\ UNCHANGED <<stage, fs, file, pc, res, last_pc, last_line, test_num,
                   in_test, test_lines, out, raised>>

MapReturn ==
    /\ stage = "map_loop"
    /\ pos = Len(file)
    /\ stage' = "map_return"
    /\ UNCHANGED key_order
    /\ UNCHANGED <<rom, bak, last_run>>
    /\ UNCHANGED <<fs, file, pos, test_map, pc, res, last_pc, last_line,
                   test_num, in_test, test_lines, out, raised>>

NextMap == MapReadLine \/ MapReturn

SpecMap == InitMap /\ [][NextMap]_vars

(***************************************************************************)
(* Calls of find_test_for_pc on one table and one pc.                      *)
(***************************************************************************)
InitResolve ==
    /\ stage = "resolve_call"
    /\ fs = NoFiles
    /\ file = <<>>
    /\ pos = 0
    /\ test_map \in Tables
    /\ pc \in 0..(MaxAddr + 1)
    /\ res = <<None, None, None>>
    /\ last_pc = None
    /\ last_line = None
    /\ test_num = 0
    /\ in_test = FALSE
    /\ test_lines = <<>>
    /\ out = <<>>
    /\ raised = None
    /\ key_order \in KeyOrders(DOMAIN test_map)
    /\ rom = None
    /\ bak = None
    /\ last_run = None

\* a call of find_test_for_pc; the caller may call it again
Resolve ==
    /\ stage \in {"resolve_call", "resolve_return"}
    /\ res' = find_test_for_pc(test_map, key_order, pc)
    /\ stage' = "resolve_return"
    /\ UNCHANGED key_order
    /\ UNCHANGED <<rom, bak, last_run>>
    /\ UNCHANGED <<fs, file, pos, test_map, pc, last_pc, last_line, test_num,
                   in_test, test_lines, out, raised>>

NextResolve == Resolve

SpecResolve == InitResolve /\ [][NextResolve]_vars

(***************************************************************************)
(* The loop of parse_trace_log, one line per step.                         *)
(***************************************************************************)
InitTrace ==
    /\ stage = "trace_loop"
    /\ fs = NoFiles
    /\ file \in Files(TraceLines)
    /\ pos = 0
    /\ test_map = NoMap
    /\ pc = 0
    /\ res = <<None, None, None>>
    /\ last_pc = None
    /\ last_line = None
    /\ test_num = 0
    /\ in_test = FALSE
    /\ test_lines = <<>>
    /\ out = <<>>
    /\ raised = None
    /\ key_order = <<>>
    /\ rom = None
    /\ bak = None
    /\ last_run = None

TraceReadLine ==
    /\ stage = "trace_loop"
    /\ pos < Len(file)
    /\ last_pc' = TraceLine(<<last_pc, last_line>>, file[pos + 1])[1]
    /\ last_line' = TraceLine(<<last_pc, last_line>>, file[pos + 1])[2]
    /\ pos' = pos + 1
    /\ UNCHANGED key_order
    /\ UNCHANGED <<rom, bak, last_run>>
    /\ UNCHANGED <<stage, fs, file, test_map, pc, res, test_num, in_test,
                   test_lines, out, raised>>

TraceReturn ==
    /\ stage = "trace_loop"
    /\ pos = Len(file)
    /\ stage' = "trace_return"
    /\ UNCHANGED key_order
    /\ UNCHANGED <<rom, bak, last_run>>
    /\ UNCHANGED <<fs, file, pos, test_map, pc, res, last_pc, last_line,
                   test_num, in_test, test_lines, out, raised>>

NextTrace == TraceReadLine \/ TraceReturn

SpecTrace == InitTrace /\ [][NextTrace]_vars

(***************************************************************************)
(* The loop of find_test_assembly, one line per step.                      *)
(***************************************************************************)
InitAsm ==
    /\ stage = "asm_loop"
    /\ fs = NoFiles
    /\ file \in Files(AsmLines)
    /\ pos = 0
    /\ test_map = NoMap
    /\ pc = 0
    /\ res = <<None, None, None>>
    /\ last_pc = None
    /\ last_line = None
    /\ test_num \in {1, 2}
    /\ in_test = FALSE
    /\ test_lines = <<>>
    /\ out = <<>>
    /\ raised = None
    /\ key_order = <<>>
    /\ rom = None
    /\ bak = None
    /\ last_run = None

\* one iteration of the loop; a break leaves the loop at once
AsmReadLine ==
    /\ stage = "asm_loop"
    /\ pos < Len(file)
    /\ LET st == AsmLine([in_test |-> in_test, test_lines |-> test_lines,
                          brk |-> FALSE], file[pos + 1], test_num)
       IN /\ in_test' = st.in_test
          /\ test_lines' = st.test_lines
          /\ stage' = IF st.brk THEN "asm_return" ELSE "asm_loop"
    /\ pos' = pos + 1
    /\ UNCHANGED key_order
    /\ UNCHANGED <<rom, bak, last_run>>
    /\ UNCHANGED <<fs, file, test_map, pc, res, last_pc, last_line, test_num,
                   out, raised>>

\* the input is exhausted
AsmReturn ==
    /\ stage = "asm_loop"
    /\ pos = Len(file)
    /\ stage' = "asm_return"
    /\ UNCHANGED key_order
    /\ UNCHANGED <<rom, bak, last_run>>
    /\ UNCHANGED <<fs, file, pos, test_map, pc, res, last_pc, last_line,
                   test_num, in_test, test_lines, out, raised>>

NextAsm == AsmReadLine \/ AsmReturn

SpecAsm == InitAsm /\ [][NextAsm]_vars

(***************************************************************************)
(* The two parsing loops on lines whose hexadecimal runs have one to seven *)
(* digits.                                                                 *)
(***************************************************************************)
\* hexadecimal runs: short, six digits, seven digits
HexRuns ==
    {<<"0">>,
     <<"a", "b", "c">>,
     <<"f", "f", "f", "f", "f", "f">>,
     <<"F", "F", "F", "F", "F", "F">>,
     <<"0", "0", "0", "0", "0", "0", "1">>,
     <<"1", "0", "0", "0", "0", "0", "0">>}

WideTraceLines ==
    {Line(<<"P", "C", ":", "0", "x">> \o h \o <<" ", "|">>) : h \in HexRuns}

WideMapLines ==
    {Line(<<"t", "e", "s", "t", "1", " ">> \o h) : h \in HexRuns}

InitWide ==
    /\ \/ stage = "trace_loop" /\ file \in Files(WideTraceLines)
       \/ stage = "map_loop" /\ file \in Files(WideMapLines)
    /\ fs = NoFiles
    /\ pos = 0
    /\ test_map = NoMap
    /\ pc = 0
    /\ res = <<None, None, None>>
    /\ last_pc = None
    /\ last_line = None
    /\ test_num = 0
    /\ in_test = FALSE
    /\ test_lines = <<>>
    /\ out = <<>>
    /\ raised = None
    /\ key_order = <<>>
    /\ rom = None
    /\ bak = None
    /\ last_run = None

NextWide == TraceReadLine \/ TraceReturn \/ MapReadLine \/ MapReturn

SpecWide == InitWide /\ [][NextWide]_vars

(***************************************************************************)
(* main, one stage per step.                                               *)
(***************************************************************************)
MapPath == "cputest/tests-basic.map"

IncPath == "cputest/tests-basic.inc"

TracePath == "cpu_trace.log"

\* a line written to standard output: a message and the value formatted into it
Stdout(log, msg, arg) == Append(log, <<msg, arg>>)

\* the messages of a log
Messages(log) == {log[i][1] : i \in 1..Len(log)}

\* the artifacts main is run on
MainMapFiles ==
    {<<>>,
     <<Line(<<";", " ", "m", "a", "p">>)>>,
     <<Line(<<"t", "e", "s", "t", "1", " ", "2">>)>>,
     <<Line(<<"t", "e", "s", "t", "1", " ", "2">>),
       Line(<<"t", "e", "s", "t", "2", " ", "1", "f">>)>>,
     <<Line(<<"t", "e", "s", "t", "2", " ", "0">>)>>}

MainIncFiles ==
    {<<>>,
     <<Line(<<"t", "e", "s", "t", "0", "0", "0", "1", ":">>),
       Line(<<" ", "n", "o", "p">>),
       Line(<<"t", "e", "s", "t", "0", "0", "0", "2", ":">>),
       Line(<<" ", "n", "o", "p">>)>>}

MainTraceLines ==
    {Line(<<"P", "C", ":", "0", "x", "1", "0", " ", "|">>),
     Line(<<" ", "P", "C", ":", "0", "x", "0", " ", "|", " ", "A", "D">>),
     Line(<<"P", "C", ":", "0", "x", "2", "0", " ", "|", " ", "2", "D", " ",
            "|", " ", "A", "N", "D">>),
     Line(<<"P", "C", ":", "0", "x", "1", "0", "|">>)}

Present(files) == {None} \cup {Some(f) : f \in files}

InitMain ==
    /\ stage = "main_start"
    /\ fs \in [map : Present(MainMapFiles), inc : Present(MainIncFiles),
               trace : Present(Files(MainTraceLines))]
    /\ file = <<>>
    /\ pos = 0
    /\ test_map = NoMap
    /\ pc = 0
    /\ res = <<None, None, None>>
    /\ last_pc = None
    /\ last_line = None
    /\ test_num = 0
    /\ in_test = FALSE
    /\ test_lines = <<>>
    /\ out = <<>>
    /\ raised = None
    /\ key_order = <<>>
    /\ rom = None
    /\ bak = None
    /\ last_run = None

\* variant of MissingArtifact that does not look for the listing
MissingArtifactNoInc(f) ==
    IF f.map = None THEN Some(MapPath)
    ELSE IF f.trace = None THEN Some(TracePath)
    ELSE None

\* the three existence checks, in the order map, inc, trace: the path
\* reported as missing, None when all three artifacts exist
MissingArtifact(f) ==
    IF f.map = None THEN Some(MapPath)
    ELSE IF f.inc = None THEN Some(IncPath)
    ELSE IF f.trace = None THEN Some(TracePath)
    ELSE None

MainCheckFiles ==
    /\ stage = "main_start"
    /\ IF MissingArtifact(fs) # None
       THEN /\ out' = Stdout(out, "Error: not found", Val(MissingArtifact(fs)))
            /\ stage' = "main_returned"
       ELSE /\ out' = out
            /\ stage' = "main_parse_map"
    /\ UNCHANGED key_order
    /\ UNCHANGED <<rom, bak, last_run>>
    /\ UNCHANGED <<fs, file, pos, test_map, pc, res, last_pc, last_line,
                   test_num, in_test, test_lines, raised>>

MainParseMap ==
    /\ stage = "main_parse_map"
    /\ test_map' = parse_map_file(Val(fs.map))
    /\ out' = Stdout(Stdout(out, "Parsing map file...", None),
                    "Found tests in map file",
                    Cardinality(DOMAIN parse_map_file(Val(fs.map))))
    /\ stage' = "main_scan_trace"
    /\ key_order' = parse_map_keys(Val(fs.map))
    /\ UNCHANGED <<rom, bak, last_run>>
    /\ UNCHANGED <<fs, file, pos, pc, res, last_pc, last_line, test_num,
                   in_test, test_lines, raised>>

\* variant of ScanMissed that tests the truth value of last_pc
ScanMissedFalsy(lp) == lp = None \/ lp = Some(0)

\* if last_pc is None
ScanMissed(lp) == lp = None

MainScanTrace ==
    /\ stage = "main_scan_trace"
    /\ LET scan == parse_trace_log(Val(fs.trace))
       IN /\ last_pc' = scan[1]
          /\ last_line' = scan[2]
          /\ IF ScanMissed(scan[1])
             THEN /\ out' = Stdout(Stdout(out, "Analyzing trace log...", None),
                                  "Error: Could not find PC in trace log",
                                  None)
                  /\ stage' = "main_returned"
             ELSE /\ out' = Stdout(Stdout(Stdout(out, "Analyzing trace log...",
                                              None),
                                        "Last PC", Val(scan[1])),
                                  "Last line", Val(scan[2]))
                  /\ stage' = "main_resolve"
    /\ UNCHANGED key_order
    /\ UNCHANGED <<rom, bak, last_run>>
    /\ UNCHANGED <<fs, file, pos, test_map, pc, res, test_num, in_test,
                   test_lines, raised>>

\* the call of find_test_for_pc and the report of its result; formatting
\* None with the format 04x raises TypeError
MainResolve ==
    /\ stage = "main_resolve"
    /\ pc' = Val(last_pc)
    /\ LET r == find_test_for_pc(test_map, key_order, Val(last_pc))
       IN /\ res' = r
          /\ IF r[1] = None
             THEN /\ raised' = Some("TypeError")
                  /\ out' = out
                  /\ stage' = "main_raised"
             ELSE /\ raised' = raised
                  /\ out' =
                       LET o == Stdout(Stdout(out, "Test number",
                                            Format04x(Val(r[1]))),
                                      "Test start", Val(r[2]))
                       IN IF r[3] # None /\ Val(r[3]) # 0
                          THEN Stdout(o, "Test end", Val(r[3]))
                          ELSE o
                  /\ stage' = "main_locate"
    /\ UNCHANGED key_order
    /\ UNCHANGED <<rom, bak, last_run>>
    /\ UNCHANGED <<fs, file, pos, test_map, last_pc, last_line, test_num,
                   in_test, test_lines>>

MainLocate ==
    /\ stage = "main_locate"
    /\ test_num' = Val(res[1])
    /\ LET test_asm == find_test_assembly(Val(fs.inc), Val(res[1]))
       IN /\ test_lines' = test_asm
          /\ out' = IF Len(test_asm) > 0
                    THEN Stdout(Stdout(out, "Finding assembly",
                                     Format04x(Val(res[1]))),
                               "Assembly code", test_asm)
                    ELSE Stdout(Stdout(out, "Finding assembly",
                                     Format04x(Val(res[1]))),
                               "Could not find assembly code", None)
    /\ stage' = "main_diff"
    /\ UNCHANGED key_order
    /\ UNCHANGED <<rom, bak, last_run>>
    /\ UNCHANGED <<fs, file, pos, test_map, pc, res, last_pc, last_line,
                   in_test, raised>>

MainDiff ==
    /\ stage = "main_diff"
    /\ LET diff == analyze_assembly_diff(Val(last_line), test_lines)
       IN out' = IF diff # None
                 THEN Stdout(Stdout(Stdout(out, "Analyzing difference...", None),
                                  "Trace instruction", Val(diff).trace_instr),
                            "Trace bytes", Val(diff).trace_bytes)
                 ELSE Stdout(out, "Analyzing difference...", None)
    /\ stage' = "main_returned"
    /\ UNCHANGED key_order
    /\ UNCHANGED <<rom, bak, last_run>>
    /\ UNCHANGED <<fs, file, pos, test_map, pc, res, last_pc, last_line,
                   test_num, in_test, test_lines, raised>>

NextMain ==
    \/ MainCheckFiles
    \/ MainParseMap
    \/ MainScanTrace
    \/ MainResolve
    \/ MainLocate
    \/ MainDiff

SpecMain == InitMain /\ [][NextMain]_vars

(***************************************************************************)
(* The ROM scripts: patch_cmp_to_lda.py, patch_cmp_to_lda2.py,             *)
(* restore_patch.py, restore_patch2.py and spctest/patch_spctest.py.       *)
(*                                                                         *)
(* The contents of a file are [len, at]: its length and its non-zero bytes *)
(* by offset (counted from 0); every other byte below len is 0.            *)
(***************************************************************************)
CMP == 205          \* 0xCD

LDA == 173          \* 0xAD

PortLow == 64       \* 0x40

PortHigh == 33      \* 0x21

PatchOffset == 395          \* 0x018b

RestoreOffset == 354        \* 0x0162

HeaderOffset == 8587        \* 0x218b

AltOffset == 16779          \* 0x418b

NearDistance == 256         \* 0x100

\* bytes([0xCD, 0x40, 0x21])
CmpPattern == <<CMP, PortLow, PortHigh>>

\* bytes([0x8F, 0x00, 0xF4, 0x8F, 0x00, 0xF1])
SpcPattern == <<143, 0, 244, 143, 0, 241>>

\* the corrected SPC700 code
SpcCode ==
    <<143, 0, 244, 143, 0, 241, 100, 245, 1, 208, 251, 228, 246, 196, 16,
      228, 247, 196, 17, 95, 89, 3>>

\* data[i] for an index within the data
Byte(d, i) == IF i \in DOMAIN d.at THEN d.at[i] ELSE 0

\* data[i] = v
SetByte(d, i, v) ==
    [d EXCEPT !.at =
        [k \in (DOMAIN d.at \ {i}) \cup (IF v = 0 THEN {} ELSE {i}) |->
            IF k = i THEN v ELSE d.at[k]]]

\* data[i:i+len(t)] == t : a slice that runs past the end is shorter than t
SliceIs(d, i, t) ==
    /\ i + Len(t) <= d.len
    /\ \A k \in 1..Len(t) : Byte(d, i + k - 1) = t[k]

\* data[i:i+len(t)] = t : a slice cut off by the end of the data is
\* replaced by the whole of t, which lengthens the data
SliceAssign(d, i, t) ==
    [len |-> IF i + Len(t) > d.len THEN i + Len(t) ELSE d.len,
     at |-> [k \in (DOMAIN d.at \ (i..(i + Len(t) - 1)))
                    \cup {i + j - 1 : j \in {n \in 1..Len(t) : t[n] # 0}} |->
                IF k \in i..(i + Len(t) - 1) THEN t[k - i + 1]
                ELSE d.at[k]]]

\* the offsets at which t, which starts with a non-zero byte, occurs
Occurrences(d, t) == {i \in DOMAIN d.at : SliceIs(d, i, t)}

Least(S) == CHOOSE i \in S : \A k \in S : i <= k

\* what a run leaves behind: the two files, the value returned (None when
\* nothing is returned), the exception raised and the exit status
Outcome(romfile, bakfile, ret, exc, status) ==
    [rom |-> romfile, bak |-> bakfile, ret |-> ret, raised |-> exc,
     exit |-> status]

Returned(romfile, bakfile, value) ==
    Outcome(romfile, bakfile, Some(value), None, IF value THEN 0 ELSE 1)

Raised(romfile, bakfile, exc) == Outcome(romfile, bakfile, None, Some(exc), 1)

(***************************************************************************)
(* patch_cmp_to_lda.py                                                     *)
(***************************************************************************)
\* abs(i - 0x018b) < 0x100 or abs(i - 0x218b) < 0x100
Near(i) ==
    \/ (i - PatchOffset < NearDistance /\ PatchOffset - i < NearDistance)
    \/ (i - HeaderOffset < NearDistance /\ HeaderOffset - i < NearDistance)

\* the search loop: the first i in range(len(data) - 2) that holds the
\* pattern near an expected location
SearchOffset(d) ==
    LET hits == {i \in Occurrences(d, CmpPattern) : i < d.len - 2 /\ Near(i)}
    IN IF hits = {} THEN None ELSE Some(Least(hits))

\* the loop over offsets_to_try
DirectOffset(d) ==
    LET offsets_to_try == <<PatchOffset, HeaderOffset, AltOffset>>
        hits == {n \in 1..3 : /\ offsets_to_try[n] < d.len - 2
                              /\ SliceIs(d, offsets_to_try[n], CmpPattern)}
    IN IF hits = {} THEN None ELSE Some(offsets_to_try[Least(hits)])

\* variant of BackupWrite that writes the backup on every run
BackupWriteAlways(bakfile, data) == Some(data)

\* if not os.path.exists(backup_file): write bytes(data) to it
BackupWrite(bakfile, data) == IF bakfile = None THEN Some(data) ELSE bakfile

\* patch_rom of patch_cmp_to_lda.py; response is the answer typed at the
\* prompt, which is read only when the byte is not 0xCD
patch_rom(romfile, bakfile, response) ==
    IF romfile = None THEN Returned(romfile, bakfile, FALSE)
    ELSE
    LET data == Val(romfile)
        hit == IF SearchOffset(data) # None THEN SearchOffset(data)
               ELSE DirectOffset(data)
        found == hit # None
        offset == IF found THEN Val(hit) ELSE PatchOffset
    IN IF ~found /\ offset >= data.len
       THEN Returned(romfile, bakfile, FALSE)
       ELSE IF offset < data.len
       THEN IF offset + 1 >= data.len \/ offset + 2 >= data.len
            THEN Raised(romfile, bakfile, "IndexError")
            ELSE IF Byte(data, offset) # CMP /\ Lower(<<response>>) # <<"y">>
            THEN Returned(romfile, bakfile, FALSE)
            ELSE Returned(Some(SetByte(data, offset, LDA)),
                          BackupWrite(bakfile, SetByte(data, offset, LDA)),
                          TRUE)
       ELSE Returned(romfile, bakfile, FALSE)

(***************************************************************************)
(* patch_cmp_to_lda2.py                                                    *)
(***************************************************************************)
patch_rom2(romfile, bakfile) ==
    IF romfile = None THEN Returned(romfile, bakfile, FALSE)
    ELSE
    LET data == Val(romfile)
        offset == PatchOffset
    IN IF offset >= data.len THEN Returned(romfile, bakfile, FALSE)
       ELSE IF offset + 1 >= data.len \/ offset + 2 >= data.len
       THEN Raised(romfile, bakfile, "IndexError")
       ELSE IF Byte(data, offset) # CMP
       THEN Returned(romfile, bakfile, FALSE)
       ELSE Returned(Some(SetByte(data, offset, LDA)), bakfile, TRUE)

(***************************************************************************)
(* restore_patch.py                                                        *)
(***************************************************************************)
\* data[offset] == 0xAD and data[offset+1] == 0x40 and data[offset+2] == 0x21
\* for an offset within the data: "match", "differ" or "raise"; the second
\* and third byte are read only when the bytes before them match
LdaTest(d, offset) ==
    IF Byte(d, offset) # LDA THEN "differ"
    ELSE IF offset + 1 >= d.len THEN "raise"
    ELSE IF Byte(d, offset + 1) # PortLow THEN "differ"
    ELSE IF offset + 2 >= d.len THEN "raise"
    ELSE IF Byte(d, offset + 2) # PortHigh THEN "differ"
    ELSE "match"

\* the body of the loop over offsets_to_restore
RestoreAt(st, offset) ==
    IF st.raised \/ offset >= st.data.len THEN st
    ELSE IF LdaTest(st.data, offset) = "raise"
    THEN [st EXCEPT !.raised = TRUE]
    ELSE IF LdaTest(st.data, offset) = "match"
    THEN [st EXCEPT !.data = SetByte(st.data, offset, CMP),
                    !.restored = TRUE]
    ELSE st

restore_rom(romfile, bakfile) ==
    IF bakfile # None THEN Returned(bakfile, bakfile, TRUE)
    ELSE IF romfile = None THEN Returned(romfile, bakfile, FALSE)
    ELSE
    LET start == [data |-> Val(romfile), restored |-> FALSE,
                  raised |-> FALSE]
        st == RestoreAt(RestoreAt(start, RestoreOffset), PatchOffset)
    IN IF st.raised THEN Raised(romfile, bakfile, "IndexError")
       ELSE IF st.restored THEN Returned(Some(st.data), bakfile, TRUE)
       ELSE Returned(romfile, bakfile, TRUE)

(***************************************************************************)
(* restore_patch2.py                                                       *)
(***************************************************************************)
restore_rom2(romfile, bakfile) ==
    IF romfile = None THEN Returned(romfile, bakfile, FALSE)
    ELSE
    LET data == Val(romfile)
        offset == RestoreOffset
    IN IF offset >= data.len THEN Returned(romfile, bakfile, FALSE)
       ELSE IF offset + 1 >= data.len \/ offset + 2 >= data.len
       THEN Raised(romfile, bakfile, "IndexError")
       ELSE IF LdaTest(data, offset) = "match"
       THEN Returned(Some(SetByte(data, offset, CMP)), bakfile, TRUE)
       ELSE Returned(romfile, bakfile, FALSE)

(***************************************************************************)
(* spctest/patch_spctest.py                                                *)
(***************************************************************************)
\* rom_data.find(pattern), None for -1
SpcFind(d) ==
    IF Occurrences(d, SpcPattern) = {} THEN None
    ELSE Some(Least(Occurrences(d, SpcPattern)))

patch_spctest(romfile, bakfile) ==
    IF romfile = None THEN Raised(romfile, bakfile, "FileNotFoundError")
    ELSE IF SpcFind(Val(romfile)) = None
    THEN Outcome(romfile, bakfile, None, None, 1)
    ELSE Outcome(Some(SliceAssign(Val(romfile), Val(SpcFind(Val(romfile))),
                                  SpcCode)),
                 bakfile, None, None, 0)

(***************************************************************************)
(* The specification of the ROM scripts: from a directory that holds (or   *)
(* lacks) spctest.sfc and no backup, the five scripts run in any order,    *)
(* any number of times.  A run is one step.                                *)
(***************************************************************************)
Blank(n) == [len |-> n, at |-> [k \in {} |-> 0]]

\* the first n bytes of d
Clip(d, n) ==
    [len |-> n, at |-> [k \in {i \in DOMAIN d.at : i < n} |-> d.at[k]]]

\* the lengths of the ROM files: empty, ending at, one, two and three bytes
\* after each of the two fixed offsets, and two longer files
RomLengths ==
    {0, RestoreOffset, RestoreOffset + 1, RestoreOffset + 2,
     RestoreOffset + 3, PatchOffset, PatchOffset + 1, PatchOffset + 2,
     PatchOffset + 3, 512, 16896}

\* the contents the ROM files are cut from
RomContents ==
    LET blank == Blank(16896)
        cmp(d, i) == SliceAssign(d, i, CmpPattern)
        lda(d, i) == SliceAssign(d, i, <<LDA, PortLow, PortHigh>>)
        spc(d, i) == SliceAssign(d, i, SpcPattern)
    IN {blank,
        cmp(blank, PatchOffset),
        SliceAssign(blank, PatchOffset, <<CMP>>),
        lda(blank, PatchOffset),
        lda(blank, RestoreOffset),
        lda(lda(blank, RestoreOffset), PatchOffset),
        cmp(lda(blank, RestoreOffset), PatchOffset),
        cmp(blank, 100),
        cmp(blank, 256),
        cmp(cmp(blank, 256), PatchOffset),
        cmp(blank, HeaderOffset),
        cmp(blank, AltOffset),
        spc(blank, 32),
        spc(spc(blank, 32), 64),
        spc(blank, 500),
        spc(cmp(blank, PatchOffset), 32)}

RomFiles == {Clip(d, n) : d \in RomContents, n \in RomLengths}

\* the answers typed at the prompt of patch_cmp_to_lda.py
Responses == {"y", "Y", "n"}

InitRom ==
    /\ stage = "shell"
    /\ rom \in {None} \cup {Some(d) : d \in RomFiles}
    /\ bak = None
    /\ last_run = None
    /\ fs = NoFiles
    /\ file = <<>>
    /\ pos = 0
    /\ test_map = NoMap
    /\ pc = 0
    /\ res = <<None, None, None>>
    /\ last_pc = None
    /\ last_line = None
    /\ test_num = 0
    /\ in_test = FALSE
    /\ test_lines = <<>>
    /\ out = <<>>
    /\ raised = None
    /\ key_order = <<>>

\* the record of a run: the files it found and how it ended
RunRecord(script, o) ==
    Some([script |-> script, rom |-> rom, bak |-> bak, ret |-> o.ret,
          raised |-> o.raised, exit |-> o.exit])

RunPatchCmpToLda ==
    /\ stage = "shell"
    /\ \E response \in Responses :
          LET o == patch_rom(rom, bak, response)
          IN /\ rom' = o.rom
             /\ bak' = o.bak
             /\ last_run' = RunRecord("patch_cmp_to_lda", o)
    /\ UNCHANGED <<stage, fs, file, pos, test_map, pc, res, last_pc,
                   last_line, test_num, in_test, test_lines, out, raised,
                   key_order>>

RunPatchCmpToLda2 ==
    /\ stage = "shell"
    /\ LET o == patch_rom2(rom, bak)
       IN /\ rom' = o.rom
          /\ bak' = o.bak
          /\ last_run' = RunRecord("patch_cmp_to_lda2", o)
    /\ UNCHANGED <<stage, fs, file, pos, test_map, pc, res, last_pc,
                   last_line, test_num, in_test, test_lines, out, raised,
                   key_order>>

RunRestorePatch ==
    /\ stage = "shell"
    /\ LET o == restore_rom(rom, bak)
       IN /\ rom' = o.rom
          /\ bak' = o.bak
          /\ last_run' = RunRecord("restore_patch", o)
    /\ UNCHANGED <<stage, fs, file, pos, test_map, pc, res, last_pc,
                   last_line, test_num, in_test, test_lines, out, raised,
                   key_order>>

RunRestorePatch2 ==
    /\ stage = "shell"
    /\ LET o == restore_rom2(rom, bak)
       IN /\ rom' = o.rom
          /\ bak' = o.bak
          /\ last_run' = RunRecord("restore_patch2", o)
    /\ UNCHANGED <<stage, fs, file, pos, test_map, pc, res, last_pc,
                   last_line, test_num, in_test, test_lines, out, raised,
                   key_order>>

RunPatchSpctest ==
    /\ stage = "shell"
    /\ LET o == patch_spctest(rom, bak)
       IN /\ rom' = o.rom
          /\ bak' = o.bak
          /\ last_run' = RunRecord("patch_spctest", o)
    /\ UNCHANGED <<stage, fs, file, pos, test_map, pc, res, last_pc,
                   last_line, test_num, in_test, test_lines, out, raised,
                   key_order>>

NextRom ==
    \/ RunPatchCmpToLda
    \/ RunPatchCmpToLda2
    \/ RunRestorePatch
    \/ RunRestorePatch2
    \/ RunPatchSpctest

SpecRom == InitRom /\ [][NextRom]_vars

(***************************************************************************)
(* Properties of find_test_for_pc, checked under SpecResolve.              *)
(***************************************************************************)
Keys == DOMAIN test_map

MinKey == CHOOSE a \in Keys : \A b \in Keys : a <= b

MaxKey == CHOOSE a \in Keys : \A b \in Keys : b <= a

Resolved == stage = "resolve_return"

\* C1: for a non-empty table and a pc at or above the smallest mapped
\* address, the returned start is the greatest mapped address that does not
\* exceed pc and the returned test id is the id mapped at that start.
C1_StartIsGreatestBelow ==
    (Resolved /\ Keys # {} /\ pc >= MinKey) =>
        /\ res[2] # None
        /\ Val(res[2]) \in Keys
        /\ Val(res[2]) <= pc
        /\ \A a \in Keys : a <= pc => a <= Val(res[2])
        /\ res[1] = Some(test_map[Val(res[2])])

\* a pc inside the middle range of a table of three or more entries
C1_Witness ==
    /\ Resolved
    /\ pc \notin Keys
    /\ \E a, b, c \in Keys : a < b /\ b < pc /\ pc < c /\ res[2] = Some(b)

\* C2: for a non-empty table and a pc below the smallest mapped address, the
\* result is the id at the smallest address, start the smallest address and
\* end the second-smallest address, or None when the table has one entry.
C2_PrecedesFirst ==
    (Resolved /\ Keys # {} /\ pc < MinKey) =>
        /\ res[1] = Some(test_map[MinKey])
        /\ res[2] = Some(MinKey)
        /\ IF Cardinality(Keys) = 1
           THEN res[3] = None
           ELSE /\ res[3] # None
                /\ Val(res[3]) \in Keys \ {MinKey}
                /\ \A a \in Keys \ {MinKey} : Val(res[3]) <= a

\* a pc below the first of several entries, answered with the second as end
C2_Witness ==
    /\ Resolved
    /\ Cardinality(Keys) >= 2
    /\ pc < MinKey
    /\ res[2] = Some(MinKey)
    /\ res[3] # None

\* C3: for a non-empty table and a pc at or above the smallest mapped
\* address, end is None exactly when start is the largest mapped address;
\* otherwise end is the smallest mapped address above start and
\* start <= pc < end.
C3_EndOpenIffLast ==
    (Resolved /\ Keys # {} /\ pc >= MinKey) =>
        /\ res[2] # None
        /\ (res[3] = None) <=> (Val(res[2]) = MaxKey)
        /\ res[3] # None =>
              /\ Val(res[3]) \in Keys
              /\ Val(res[3]) > Val(res[2])
              /\ \A a \in Keys : a > Val(res[2]) => Val(res[3]) <= a
              /\ Val(res[2]) <= pc
              /\ pc < Val(res[3])

\* a pc in a closed range: the enclosing test is not the last one
C3_Witness ==
    /\ Resolved
    /\ Keys # {}
    /\ pc >= MinKey
    /\ res[3] # None
    /\ Val(res[2]) # MaxKey

\* every order the keys of a set can be inserted in
RECURSIVE Perms(_)
Perms(S) ==
    IF S = {} THEN {<<>>}
    ELSE UNION {{<<x>> \o q : q \in Perms(S \ {x})} : x \in S}

\* C11: a call of find_test_for_pc leaves the table and its key order as
\* they are, a second call with the same table and pc returns what the
\* first call returned, and the result is the same for every insertion
\* order of the table's entries.
C11_OrderIndependent ==
    [][/\ test_map' = test_map
       /\ key_order' = key_order
       /\ stage = "resolve_return" => res' = res
       /\ \A q \in Perms(Keys) :
             res' = find_test_for_pc(test_map, q, pc)]_vars

\* a table of three entries inserted in descending order, resolved to a
\* closed range
C11_Witness ==
    /\ Resolved
    /\ Len(key_order) >= 3
    /\ key_order[1] > key_order[2]
    /\ res[3] # None

\* C18: the result is all None only for the empty table, and the empty table
\* gives all None; otherwise start is a key, test_id is the id mapped at
\* start, and end is None or the key that follows start in ascending order,
\* so it is above start and no key lies between the two.
C18_ResultShape ==
    Resolved =>
        IF Keys = {}
        THEN res = <<None, None, None>>
        ELSE /\ res[1] # None
             /\ res[2] # None
             /\ Val(res[2]) \in Keys
             /\ Val(res[1]) = test_map[Val(res[2])]
             /\ res[3] # None =>
                   /\ Val(res[3]) \in Keys
                   /\ Val(res[3]) > Val(res[2])
                   /\ ~\E a \in Keys : Val(res[2]) < a /\ a < Val(res[3])

\* a pc below the first key of a table of three or more entries: the end is
\* the second key, not a later one
C18_Witness ==
    /\ Resolved
    /\ Cardinality(Keys) >= 3
    /\ pc < MinKey
    /\ res[3] # None
    /\ \E a \in Keys : a > Val(res[3])

(***************************************************************************)
(* Properties of the loops, checked under SpecTrace, SpecMap and SpecAsm.  *)
(***************************************************************************)
\* the lines the running loop has consumed
Consumed == 1..pos

\* the last consumed line that matches the trace pattern (0 if none does)
LastTraceMatch ==
    IF \E i \in Consumed : TraceMatch(file[i])
    THEN CHOOSE i \in Consumed :
            /\ TraceMatch(file[i])
            /\ \A k \in Consumed : TraceMatch(file[k]) => k <= i
    ELSE 0

\* s is text with the whitespace at both of its ends removed
IsStrippedOf(s, text) ==
    /\ \E i \in 1..(Len(text) + 1) :
          /\ HasAt(text, i, s)
          /\ \A k \in 1..(i - 1) : text[k] \in Space
          /\ \A k \in (i + Len(s))..Len(text) : text[k] \in Space
    /\ Len(s) > 0 => (s[1] \notin Space /\ s[Len(s)] \notin Space)

\* C5 as stated: the returned pc is the value on the last matching line read
\* and the returned line is the full text of that line.
C5_Original ==
    LastTraceMatch # 0 =>
        /\ last_pc = Some(TracePc(file[LastTraceMatch]))
        /\ last_line = Some(LineText(file[LastTraceMatch]))

\* C5: the returned pc is the hexadecimal value of the pattern on the last
\* matching line read so far, and the returned line is the text of that same
\* line with the whitespace at both of its ends removed; lines read after it
\* that do not match leave both unchanged.
C5_LastMatchStripped ==
    LastTraceMatch # 0 =>
        /\ last_pc = Some(TracePc(file[LastTraceMatch]))
        /\ last_line # None
        /\ IsStrippedOf(Val(last_line), file[LastTraceMatch])

\* two matching lines with different pcs, the second one indented, then a
\* line that does not match: the second line's pc and stripped text remain
C5_Witness ==
    /\ stage = "trace_return"
    /\ pos = 3
    /\ TraceMatch(file[1])
    /\ TraceMatch(file[2])
    /\ ~TraceMatch(file[3])
    /\ TracePc(file[1]) # TracePc(file[2])
    /\ last_pc = Some(TracePc(file[2]))
    /\ Val(last_line) # LineText(file[2])

\* the consumed lines that match the map grammar
MapMatches == {i \in Consumed : MapMatch(file[i])}

\* the last consumed matching line that carries address a
LastMapLineAt(a) ==
    CHOOSE i \in MapMatches :
        /\ MapAddr(file[i]) = a
        /\ \A k \in MapMatches : MapAddr(file[k]) = a => k <= i

\* C7: the key set of the table is the set of decoded addresses of the
\* matching lines read so far, each key maps to the decoded id of the last
\* matching line carrying that address, and a line that does not match
\* leaves the table as it is.
C7_TableIsLastWrites ==
    /\ DOMAIN test_map = {MapAddr(file[i]) : i \in MapMatches}
    /\ \A a \in DOMAIN test_map :
          test_map[a] = MapTestNum(file[LastMapLineAt(a)])
    /\ (pos > 0 /\ ~MapMatch(file[pos])) =>
          /\ DOMAIN test_map = {MapAddr(file[i]) : i \in MapMatches \ {pos}}
          /\ \A a \in DOMAIN test_map :
                \E i \in MapMatches \ {pos} :
                    /\ MapAddr(file[i]) = a
                    /\ MapTestNum(file[i]) = test_map[a]

\* two matching lines with one address and different ids, then a line that
\* does not match: the id of the second line is the one kept
C7_Witness ==
    /\ stage = "map_return"
    /\ pos = 3
    /\ MapMatch(file[1])
    /\ MapMatch(file[2])
    /\ ~MapMatch(file[3])
    /\ MapAddr(file[1]) = MapAddr(file[2])
    /\ MapTestNum(file[1]) # MapTestNum(file[2])
    /\ test_map[MapAddr(file[2])] = MapTestNum(file[2])

\* C8 as stated: no line of the result other than its first matches the
\* start-marker grammar.
C8_Original ==
    \A k \in 2..Len(test_lines) : ~IsStartMarker(test_lines[k])

\* C9 as stated: the locator never leaves the block state for the searching
\* state, a later occurrence of the requested marker is never added to the
\* output once a block is open, and the output never changes once the
\* locator is done.
C9_Original ==
    [][/\ in_test => in_test'
       /\ stage = "asm_return" => test_lines' = test_lines
       /\ (in_test /\ pos < Len(file) /\ IsTarget(file[pos + 1], test_num))
             => test_lines' = test_lines]_vars

\* the listing lines that contain the marker text of the requested test,
\* compared without regard to case
MarkerLines ==
    {i \in 1..Len(file) : Contains(Lower(file[i]), Marker(test_num))}

\* C19: the result is empty exactly when no listing line contains the marker
\* text of the requested test, case aside; otherwise it is a run of
\* consecutive listing lines in their order that starts with the first line
\* containing the marker text.
C19_ResultShape ==
    stage = "asm_return" =>
        IF MarkerLines = {}
        THEN test_lines = <<>>
        ELSE LET first == CHOOSE i \in MarkerLines :
                              \A k \in MarkerLines : i <= k
             IN /\ Len(test_lines) >= 1
                /\ first + Len(test_lines) - 1 <= Len(file)
                /\ test_lines =
                      SubSeq(file, first, first + Len(test_lines) - 1)

\* the marker is written in upper case on the second line of the listing
\* and the block that starts there has a further line
C19_Witness ==
    /\ stage = "asm_return"
    /\ Len(file) = 3
    /\ MarkerLines = {2}
    /\ ~Contains(file[2], Marker(test_num))
    /\ test_lines = SubSeq(file, 2, 3)

(***************************************************************************)
(* Properties of the decoded addresses, checked under SpecWide.            *)
(***************************************************************************)
\* the first value that does not fit into 24 bits
AddrLimit == 2 ^ 24

\* the hexadecimal run of the pattern on a matching trace line
TraceRun(line) ==
    SubSeq(line, TraceMatchPos(line) + 5,
           TraceHexEnd(line, TraceMatchPos(line)) - 1)

\* the hexadecimal run of the address on a matching map line
MapAddrRun(line) == SubSeq(line, MapAddrStart(line), MapAddrEnd(line) - 1)

\* the number a run of hexadecimal digits denotes
RECURSIVE Denoted(_, _)
Denoted(run, k) ==
    IF k > Len(run) THEN 0
    ELSE HexDigitValue[run[k]] * 16 ^ (Len(run) - k) + Denoted(run, k + 1)

\* C17 as stated: every pc returned and every address key inserted lies in
\* 0..2^24-1.
C17_Original ==
    /\ last_pc # None => Val(last_pc) \in 0..(AddrLimit - 1)
    /\ \A a \in DOMAIN test_map : a \in 0..(AddrLimit - 1)

\* C17: every pc returned and every address key inserted is the number the
\* whole hexadecimal run of its line denotes; it is not negative, and it is
\* below 2^24 whenever the run has at most six digits.
C17_ValueOfWholeRun ==
    /\ (stage \in {"trace_loop", "trace_return"} /\ LastTraceMatch # 0) =>
          LET run == TraceRun(file[LastTraceMatch])
          IN /\ last_pc = Some(Denoted(run, 1))
             /\ Val(last_pc) >= 0
             /\ Len(run) <= 6 => Val(last_pc) < AddrLimit
    /\ stage \in {"map_loop", "map_return"} =>
          /\ DOMAIN test_map =
                {Denoted(MapAddrRun(file[i]), 1) : i \in MapMatches}
          /\ \A i \in MapMatches :
                /\ Denoted(MapAddrRun(file[i]), 1) >= 0
                /\ Len(MapAddrRun(file[i])) <= 6 =>
                      Denoted(MapAddrRun(file[i]), 1) < AddrLimit

\* a trace line with the seven-digit run 1000000 has been scanned: the pc
\* returned is 2^24
C17_Witness ==
    /\ stage = "trace_return"
    /\ LastTraceMatch # 0
    /\ Len(TraceRun(file[LastTraceMatch])) = 7
    /\ last_pc = Some(AddrLimit)

(***************************************************************************)
(* Properties of main, checked under SpecMain.                             *)
(***************************************************************************)
AllPresent == fs.map # None /\ fs.inc # None /\ fs.trace # None

TraceHasPc == \E i \in 1..Len(Val(fs.trace)) : TraceMatch(Val(fs.trace)[i])

\* the last line of the trace artifact that matches the trace pattern
LastPcLine ==
    LET t == Val(fs.trace)
    IN t[CHOOSE i \in 1..Len(t) :
            /\ TraceMatch(t[i])
            /\ \A k \in 1..Len(t) : TraceMatch(t[k]) => k <= i]

MainEnded == stage \in {"main_returned", "main_raised"}

\* main is past the scan of the trace
Scanned ==
    \/ stage \in {"main_resolve", "main_locate", "main_diff", "main_raised"}
    \/ stage = "main_returned" /\ AllPresent

\* main is past the call of find_test_for_pc
PastResolve ==
    \/ stage \in {"main_locate", "main_diff", "main_raised"}
    \/ stage = "main_returned" /\ AllPresent /\ last_pc # None

LaterStageMessages ==
    {"Test number", "Test start", "Test end", "Finding assembly",
     "Assembly code", "Could not find assembly code",
     "Analyzing difference...", "Trace instruction", "Trace bytes"}

\* C4 as stated: with all artifacts present, a pc line in the trace and an
\* empty symbol table, main ends by a normal return, never by an exception,
\* without running the locator or the diff.
C4_Original ==
    (AllPresent /\ TraceHasPc /\ DOMAIN parse_map_file(Val(fs.map)) = {}) =>
        /\ raised = None
        /\ stage \notin {"main_raised", "main_locate", "main_diff"}
        /\ Messages(out) \cap LaterStageMessages = {}

\* C6: the scan result is None exactly when no trace line matches; main then
\* reports that the pc could not be found and returns without resolving or
\* locating; a last matching line with pc 0 is a found pc of value 0, is not
\* reported as a miss, and is passed to the resolver.
C6_MissIsNotZero ==
    Scanned =>
        /\ (last_pc = None) <=> ~TraceHasPc
        /\ last_pc = None =>
              /\ stage = "main_returned"
              /\ raised = None
              /\ out[Len(out)][1] = "Error: Could not find PC in trace log"
              /\ Messages(out) \cap LaterStageMessages = {}
              /\ res = <<None, None, None>>
              /\ test_lines = <<>>
        /\ (TraceHasPc /\ TracePc(LastPcLine) = 0) =>
              /\ last_pc = Some(0)
              /\ "Error: Could not find PC in trace log" \notin Messages(out)
              /\ stage # "main_resolve" =>
                    /\ pc = 0
                    /\ res = find_test_for_pc(test_map, key_order, 0)
                    /\ test_map # NoMap => "Test number" \in Messages(out)

\* the last matching trace line has pc 0 and main has resolved it to a test
C6_Witness ==
    /\ stage = "main_returned"
    /\ AllPresent
    /\ TraceHasPc
    /\ TracePc(LastPcLine) = 0
    /\ last_pc = Some(0)
    /\ res[1] # None
    /\ "Test number" \in Messages(out)

\* C10: when the map file, the listing or the trace file is absent, main
\* prints one message naming a missing path and returns; no later stage has
\* run and no exception is raised.
C10_MissingArtifact ==
    ~AllPresent =>
        /\ raised = None
        /\ stage \in {"main_start", "main_returned"}
        /\ stage = "main_returned" =>
              /\ Len(out) = 1
              /\ out[1][1] = "Error: not found"
              /\ \/ out[1][2] = MapPath /\ fs.map = None
                 \/ out[1][2] = IncPath /\ fs.inc = None
                 \/ out[1][2] = TracePath /\ fs.trace = None
        /\ test_map = NoMap
        /\ last_pc = None
        /\ last_line = None
        /\ res = <<None, None, None>>
        /\ test_lines = <<>>

\* the listing alone is absent and main has returned after naming it
C10_Witness ==
    /\ stage = "main_returned"
    /\ fs.map # None
    /\ fs.inc = None
    /\ fs.trace # None
    /\ out = <<<<"Error: not found", IncPath>>>>

(***************************************************************************)
(* Properties of the ROM scripts, checked under SpecRom.                   *)
(***************************************************************************)
LastRun == Val(last_run)

Ran(script) == last_run # None /\ LastRun.script = script

\* the latest run created the backup
BackupCreated == last_run # None /\ LastRun.bak = None /\ bak # None

\* C12 as stated: whenever patch_rom of patch_cmp_to_lda.py creates
\* spctest.sfc.bak, the backup holds the contents the ROM file had before the
\* byte edit of that run.
C12_Original ==
    (Ran("patch_cmp_to_lda") /\ BackupCreated) => bak = LastRun.rom

\* C13 as stated: when patch_rom of patch_cmp_to_lda.py has succeeded with no
\* backup present, the run of restore_rom of restore_patch.py that follows
\* leaves spctest.sfc identical to the ROM as it was before the patch.
C13_Original ==
    [][(/\ Ran("patch_cmp_to_lda")
        /\ LastRun.bak = None
        /\ LastRun.ret = Some(TRUE)
        /\ last_run' # None
        /\ Val(last_run').script = "restore_patch")
       => rom' = LastRun.rom]_vars

\* C14 as stated: patch_rom of patch_cmp_to_lda2.py writes the ROM only when
\* the three bytes at 0x018b..0x018d are CD 40 21; after a successful run
\* those bytes are AD 40 21 and every other byte and the length are as
\* before; whenever it returns False the ROM file is as before.
C14_Original ==
    Ran("patch_cmp_to_lda2") =>
        /\ (LastRun.ret = Some(TRUE) \/ rom # LastRun.rom) =>
              /\ LastRun.rom # None
              /\ SliceIs(Val(LastRun.rom), PatchOffset, CmpPattern)
        /\ LastRun.ret = Some(TRUE) =>
              /\ SliceIs(Val(rom), PatchOffset, <<LDA, PortLow, PortHigh>>)
              /\ Val(rom) = SetByte(Val(LastRun.rom), PatchOffset, LDA)
        /\ LastRun.ret = Some(FALSE) => rom = LastRun.rom

PatchAndRestoreScripts ==
    {"patch_cmp_to_lda", "patch_cmp_to_lda2", "restore_patch",
     "restore_patch2"}

\* C15 as stated: whatever the length of the ROM file, a run of patch_rom or
\* restore_rom ends by returning True or False, never by reading a byte
\* beyond the end of the ROM data.
C15_Original ==
    (last_run # None /\ LastRun.script \in PatchAndRestoreScripts) =>
        /\ LastRun.raised = None
        /\ LastRun.ret \in {Some(TRUE), Some(FALSE)}

\* the offsets at which two files differ
Differences(d, e) ==
    {k \in DOMAIN d.at \cup DOMAIN e.at : Byte(d, k) # Byte(e, k)}

\* C16 as stated: a run of patch_spctest.py on a ROM that holds the pattern
\* 8F 00 F4 8F 00 F1 leaves the length as it was and changes bytes only
\* within the 22 bytes that start at the first occurrence of the pattern; a
\* second run leaves the ROM as the first left it; on a ROM without the
\* pattern the file is left as it was.
C16_Original ==
    [][(/\ last_run' # None
        /\ Val(last_run').script = "patch_spctest"
        /\ rom # None)
       => /\ SpcFind(Val(rom)) # None =>
                /\ rom' # None
                /\ Val(rom').len = Val(rom).len
                /\ Differences(Val(rom), Val(rom')) \subseteq
                      Val(SpcFind(Val(rom))) ..
                          (Val(SpcFind(Val(rom))) + Len(SpcCode) - 1)
          /\ SpcFind(Val(rom)) = None => rom' = rom
          /\ (Ran("patch_spctest") /\ LastRun.exit = 0) => rom' = rom]_vars

\* C20: once spctest.sfc.bak exists, a run of patch_cmp_to_lda.py,
\* patch_cmp_to_lda2.py, restore_patch.py or restore_patch2.py leaves the
\* backup as it found it, neither changed nor deleted; and a run of
\* restore_patch.py that finds a backup leaves spctest.sfc with exactly the
\* contents of the backup, whatever the ROM held before.
C20_BackupWriteOnce ==
    (/\ last_run # None
     /\ LastRun.script \in PatchAndRestoreScripts
     /\ LastRun.bak # None)
    => /\ bak = LastRun.bak
       /\ LastRun.script = "restore_patch" =>
             /\ rom = LastRun.bak
             /\ LastRun.ret = Some(TRUE)

\* restore_patch.py has run on a ROM that differed from the backup and has
\* replaced it by the backup
C20_Witness ==
    /\ Ran("restore_patch")
    /\ LastRun.bak # None
    /\ LastRun.rom # LastRun.bak
    /\ rom = bak

====
